---- MODULE Spec2Model ----
(***************************************************************************)
(* Model of PortScanner.py: the batch runner scan_from_file, the worker    *)
(* pool port_scanner / worker / scan_port, and the prompts of __main__.    *)
(* The main thread and every worker thread are processes; each action is   *)
(* one atomic step of one thread (queue.Queue operations are atomic).      *)
(***************************************************************************)
EXTENDS Integers, Sequences, FiniteSets, TLC

\* ---- bounds of the model ----
MaxHosts == 2
MaxPort == 2
MaxThreads == 2

\* ---- program constants ----
PortLimit == 65000
default_threads == 100

Hosts == 1..MaxHosts
Ports == 1..MaxPort
ThreadCounts == (0 - 1)..MaxThreads

\* a host string: a valid address (a host) or 0, a string that is no address
\* and no well-formed name either, such as "a..b"
FileLines == {0} \cup Hosts
\* what the user types at a port prompt
PortEntries == 0..MaxPort
\* what the user types at the thread prompt: blank, a number, or other text
ThreadEntries == {[kind |-> "blank", val |-> 0], [kind |-> "text", val |-> 0]}
                 \cup {[kind |-> "int", val |-> v] : v \in ThreadCounts}

VARIABLES
  host_list,     \* argument of scan_from_file: sequence of hosts
  start_port,    \* argument
  end_port,      \* argument
  num_threads,   \* argument
  pc,            \* position of the main thread
  hostIdx,       \* position of the for loop of scan_from_file in host_list
  state,         \* local of scan_from_file: "Online" / "Offline"
  hostname,      \* local of scan_from_file
  open_ports,    \* local list open_ports (scan_from_file and port_scanner)
  port_queue,    \* per port_scanner call: the Queue of ports still queued
  unfinished,    \* per port_scanner call: Queue.unfinished_tasks of port_queue
  output_queue,  \* per port_scanner call: the Queue of open ports
  threads,       \* every worker thread started so far
  launched,      \* len(threads) of the running port_scanner call
  invoked,       \* history: per call and port, number of scan_port calls
  reported,      \* history: per call, ports whose connect_ex returned 0
  scanned,       \* history: the calls of port_scanner made so far
  pinged,        \* history: hosts given to is_host_online, in call order
  resolved,      \* history: hosts given to get_host_info, in call order
  results,       \* the dict results, in insertion order
  sinkCalls,     \* number of times the output file was opened for writing
  sinkStatus,    \* "none", "written", or "IOError" when the write failed
  sinkData,      \* the report json.dump wrote
  caller         \* what the caller of scan_from_file got: "pending", "None"
                 \* (the call returned None) or "raised" (an exception)

vars == <<host_list, start_port, end_port, num_threads, pc, hostIdx, state,
          hostname, open_ports, port_queue, unfinished, output_queue,
          threads, launched, invoked, reported, scanned, pinged, resolved,
          results, sinkCalls, sinkStatus, sinkData, caller>>

args == <<host_list, start_port, end_port, num_threads>>
locals == <<state, hostname, open_ports>>
queues == <<port_queue, unfinished, output_queue>>
pool == <<threads, launched>>
history == <<invoked, reported, scanned, pinged, resolved>>
sink == <<sinkCalls, sinkStatus, sinkData, caller>>

\* ---- helpers ----------------------------------------------------------

SeqToSet(s) == {s[i] : i \in DOMAIN s}

NoDuplicates(s) == \A i, j \in DOMAIN s : i /= j => s[i] /= s[j]

SeqsUpTo(S, n) == UNION {[1..k -> S] : k \in 0..n}

RECURSIVE PyRange(_, _)
\* list(range(a, b)): a, a+1, ..., b-1
PyRange(a, b) == IF a >= b THEN <<>> ELSE <<a>> \o PyRange(a + 1, b)

\* the ports range(start_port, end_port) would queue: the last port is left out
QueuedPortsExclusive(s, e) == PyRange(s, e)

\* a range taken in either direction: a reversed range is not empty
QueuedPortsEitherWay(s, e) == IF s <= e THEN PyRange(s, e + 1) ELSE PyRange(e, s + 1)

\* the ports queued by the for loop of port_scanner
QueuedPorts(s, e) == PyRange(s, e + 1)

\* a put that replaces the content instead of appending to it
QueuePutOverwrite(q, x) == <<x>>

\* Queue.put
QueuePut(q, x) == Append(q, x)

\* a barrier that does not wait
JoinReadyNoWait(u) == TRUE

\* Queue.join returns when unfinished_tasks is 0
JoinReady(u) == u = 0

\* one thread too many
LaunchMoreInclusive(k, n) == k <= n

\* for _ in range(num_threads): another iteration after k iterations
LaunchMore(k, n) == k < n

\* a gate that scans every host
ShouldScanAlways(st) == TRUE

\* if state == "Online"
ShouldScan(st) == st = "Online"

\* a loop that stops one host early
LoopDoneEarly(i, hl) == i >= Len(hl)

\* for host in host_list: exhausted when i hosts were taken
LoopDone(i, hl) == i > Len(hl)

\* results[host] = rec on a dict that keeps insertion order
DictSet(d, host, rec) ==
  IF \E i \in DOMAIN d : d[i].host = host
  THEN [i \in DOMAIN d |-> IF d[i].host = host THEN rec ELSE d[i]]
  ELSE Append(d, rec)

RECURSIVE Dedup(_)
\* check_file: keep the valid lines, each once, in file order
Dedup(lines) ==
  IF lines = <<>> THEN <<>>
  ELSE LET n == Len(lines)
           front == Dedup(SubSeq(lines, 1, n - 1))
           line == lines[n]
       IN IF line \in Hosts /\ line \notin SeqToSet(front)
          THEN Append(front, line) ELSE front

\* is_host_online: ping succeeds or fails for an address; it fails, or cannot
\* be run, for a string that names nothing
PingOutcomes(host) == IF host \in Hosts THEN {"Online", "Offline"} ELSE {"Offline"}

\* get_host_info: gethostbyaddr raises herror or gaierror for an address
\* without a name, and UnicodeError (not caught) for a malformed name
ResolverErrorCaught(host) == host \in Hosts

\* TCP_port_check: the first loop accepts s, the second accepts e
StartPortAccepted(s) == s >= 1 /\ s <= PortLimit
EndPortAccepted(s, e) == e >= s /\ e <= PortLimit

\* get_threads_count: the value returned for an entry it accepts
ThreadEntryAccepted(entry) == entry.kind \in {"blank", "int"}
ThreadsOfEntry(entry) == IF entry.kind = "blank" THEN default_threads ELSE entry.val

\* ---- initial state ------------------------------------------------------

Init ==
  /\ host_list = <<>>
  /\ start_port = 1
  /\ end_port = 1
  /\ num_threads = 1
  /\ pc = "idle"
  /\ hostIdx = 0
  /\ state = "none"
  /\ hostname = "none"
  /\ open_ports = <<>>
  /\ port_queue = [s \in Hosts |-> <<>>]
  /\ unfinished = [s \in Hosts |-> 0]
  /\ output_queue = [s \in Hosts |-> <<>>]
  /\ threads = <<>>
  /\ launched = 0
  /\ invoked = [s \in Hosts |-> [p \in Ports |-> 0]]
  /\ reported = [s \in Hosts |-> {}]
  /\ scanned = {}
  /\ pinged = <<>>
  /\ resolved = <<>>
  /\ results = <<>>
  /\ sinkCalls = 0
  /\ sinkStatus = "none"
  /\ sinkData = <<>>
  /\ caller = "pending"

\* ---- __main__ -----------------------------------------------------------

\* host_list = check_file()
CheckFile ==
  /\ pc = "idle"
  /\ \E lines \in SeqsUpTo(FileLines, MaxHosts) : host_list' = Dedup(lines)
  /\ pc' = "TCP_port_check"
  /\ UNCHANGED <<start_port, end_port, num_threads, hostIdx, locals, queues,
                 pool, history, results, sink>>

\* start_port, end_port = TCP_port_check(): each loop prompts until accepted
TCPPortCheck ==
  /\ pc = "TCP_port_check"
  /\ \E s \in PortEntries, e \in PortEntries :
       /\ StartPortAccepted(s)
       /\ EndPortAccepted(s, e)
       /\ start_port' = s
       /\ end_port' = e
  /\ pc' = "get_threads_count"
  /\ UNCHANGED <<host_list, num_threads, hostIdx, locals, queues, pool,
                 history, results, sink>>

\* threads = get_threads_count(); scan_from_file(...) is entered.
\* The default of 100 threads is beyond the bound of the model.
GetThreadsCount ==
  /\ pc = "get_threads_count"
  /\ \E entry \in ThreadEntries :
       /\ ThreadEntryAccepted(entry)
       /\ ThreadsOfEntry(entry) <= MaxThreads
       /\ num_threads' = ThreadsOfEntry(entry)
  /\ pc' = "for"
  /\ hostIdx' = 1
  /\ UNCHANGED <<host_list, start_port, end_port, locals, queues, pool,
                 history, results, sink>>

\* scan_from_file called by an importing program, with any arguments
DirectCall ==
  /\ pc = "idle"
  /\ \E hl \in SeqsUpTo(FileLines, MaxHosts) : NoDuplicates(hl) /\ host_list' = hl
  /\ start_port' \in Ports
  /\ end_port' \in Ports
  /\ num_threads' \in ThreadCounts
  /\ pc' = "for"
  /\ hostIdx' = 1
  /\ UNCHANGED <<locals, queues, pool, history, results, sink>>

\* ---- scan_from_file -----------------------------------------------------

\* for host in host_list: next host, or leave the loop
ForHost ==
  /\ pc = "for"
  /\ IF LoopDone(hostIdx, host_list) THEN pc' = "write" ELSE pc' = "is_host_online"
  /\ UNCHANGED <<args, hostIdx, locals, queues, pool, history, results, sink>>

\* a loop body that does not resolve the name of an offline host
IsHostOnlineSkipsResolve ==
  /\ pc = "is_host_online"
  /\ state' \in PingOutcomes(host_list[hostIdx])
  /\ pinged' = Append(pinged, host_list[hostIdx])
  /\ IF state' = "Offline"
     THEN pc' = "assemble" /\ hostname' = "Unknown" /\ open_ports' = <<>>
     ELSE pc' = "get_host_info" /\ UNCHANGED <<hostname, open_ports>>
  /\ UNCHANGED <<args, hostIdx, queues, pool, invoked, reported, scanned,
                 resolved, results, sink>>

\* state = "Online" if is_host_online(host) else "Offline"
IsHostOnline ==
  /\ pc = "is_host_online"
  /\ state' \in PingOutcomes(host_list[hostIdx])
  /\ pinged' = Append(pinged, host_list[hostIdx])
  /\ pc' = "get_host_info"
  /\ UNCHANGED <<args, hostIdx, hostname, open_ports, queues, pool, invoked,
                 reported, scanned, resolved, results, sink>>

\* hostname, alias = get_host_info(host); open_ports = []
\* gethostbyaddr returns, or raises an error get_host_info catches
GetHostInfo ==
  /\ pc = "get_host_info"
  /\ ResolverErrorCaught(host_list[hostIdx])
  /\ hostname' \in {"resolved", "Unknown"}
  /\ resolved' = Append(resolved, host_list[hostIdx])
  /\ open_ports' = <<>>
  /\ pc' = "if_online"
  /\ UNCHANGED <<args, hostIdx, state, queues, pool, invoked, reported,
                 scanned, pinged, results, sink>>

\* gethostbyaddr raises an error get_host_info does not catch: it leaves
\* get_host_info and scan_from_file
GetHostInfoRaise ==
  /\ pc = "get_host_info"
  /\ ~ResolverErrorCaught(host_list[hostIdx])
  /\ resolved' = Append(resolved, host_list[hostIdx])
  /\ caller' = "raised"
  /\ pc' = "raised"
  /\ UNCHANGED <<args, hostIdx, locals, queues, pool, invoked, reported,
                 scanned, pinged, results, sinkCalls, sinkStatus, sinkData>>

\* if state == "Online": port_scanner(...) is called and fills port_queue
PortScannerCall ==
  /\ pc = "if_online"
  /\ ShouldScan(state)
  /\ port_queue' = [port_queue EXCEPT ![hostIdx] = QueuedPorts(start_port, end_port)]
  /\ unfinished' = [unfinished EXCEPT ![hostIdx] = Len(QueuedPorts(start_port, end_port))]
  /\ output_queue' = [output_queue EXCEPT ![hostIdx] = <<>>]
  /\ launched' = 0
  /\ scanned' = scanned \cup {hostIdx}
  /\ pc' = "launch"
  /\ UNCHANGED <<args, hostIdx, locals, threads, invoked, reported, pinged,
                 resolved, results, sink>>

\* the host is not scanned
SkipScan ==
  /\ pc = "if_online"
  /\ ~ShouldScan(state)
  /\ pc' = "assemble"
  /\ UNCHANGED <<args, hostIdx, locals, queues, pool, history, results, sink>>

\* one iteration of for _ in range(num_threads): thread.start()
ThreadStart ==
  /\ pc = "launch"
  /\ LaunchMore(launched, num_threads)
  /\ threads' = Append(threads, [q |-> hostIdx, pc |-> "check", port |-> 0])
  /\ launched' = launched + 1
  /\ UNCHANGED <<args, pc, hostIdx, locals, queues, history, results, sink>>

\* the launch loop is over: port_queue.join() is called
LaunchDone ==
  /\ pc = "launch"
  /\ ~LaunchMore(launched, num_threads)
  /\ pc' = "join"
  /\ UNCHANGED <<args, hostIdx, locals, queues, pool, history, results, sink>>

\* port_queue.join() returns; open_ports = []
Join ==
  /\ pc = "join"
  /\ JoinReady(unfinished[hostIdx])
  /\ open_ports' = <<>>
  /\ pc' = "drain"
  /\ UNCHANGED <<args, hostIdx, state, hostname, queues, pool, history,
                 results, sink>>

\* while not output_queue.empty(): open_ports.append(output_queue.get())
Drain ==
  /\ pc = "drain"
  /\ output_queue[hostIdx] /= <<>>
  /\ open_ports' = Append(open_ports, Head(output_queue[hostIdx]))
  /\ output_queue' = [output_queue EXCEPT ![hostIdx] = Tail(@)]
  /\ UNCHANGED <<args, pc, hostIdx, state, hostname, port_queue, unfinished,
                 pool, history, results, sink>>

\* return open_ports
PortScannerReturn ==
  /\ pc = "drain"
  /\ output_queue[hostIdx] = <<>>
  /\ pc' = "assemble"
  /\ UNCHANGED <<args, hostIdx, locals, queues, pool, history, results, sink>>

\* results[host] = {...}; the loop goes to the next host
Assemble ==
  /\ pc = "assemble"
  /\ results' = DictSet(results, host_list[hostIdx],
                        [host |-> host_list[hostIdx], State |-> state,
                         Hostname |-> hostname, OpenPorts |-> open_ports])
  /\ hostIdx' = hostIdx + 1
  /\ pc' = "for"
  /\ UNCHANGED <<args, locals, queues, pool, history, sink>>

\* open(output_filename, 'w') and json.dump; an IOError is caught and printed;
\* scan_from_file returns None either way
WriteOutput ==
  /\ pc = "write"
  /\ sinkCalls' = sinkCalls + 1
  /\ \/ sinkStatus' = "written" /\ sinkData' = results
     \/ sinkStatus' = "IOError" /\ UNCHANGED sinkData
  /\ caller' = "None"
  /\ pc' = "done"
  /\ UNCHANGED <<args, hostIdx, locals, queues, pool, history, results>>

\* ---- worker / scan_port -------------------------------------------------

\* while not queue.empty()
WorkerCheck(w) ==
  /\ threads[w].pc = "check"
  /\ threads' = [threads EXCEPT ![w].pc =
                   IF port_queue[threads[w].q] = <<>> THEN "exited" ELSE "get"]
  /\ UNCHANGED <<args, pc, hostIdx, locals, queues, launched, history,
                 results, sink>>

\* port = queue.get() blocks while the queue is empty; scan_port is entered
WorkerGet(w) ==
  /\ threads[w].pc = "get"
  /\ port_queue[threads[w].q] /= <<>>
  /\ LET s == threads[w].q
         p == Head(port_queue[s])
     IN /\ port_queue' = [port_queue EXCEPT ![s] = Tail(@)]
        /\ threads' = [threads EXCEPT ![w].pc = "connect", ![w].port = p]
        /\ invoked' = [invoked EXCEPT ![s][p] = @ + 1]
  /\ UNCHANGED <<args, pc, hostIdx, locals, unfinished, output_queue,
                 launched, reported, scanned, pinged, resolved, results, sink>>

\* sock.connect_ex((host, port)) returns 0
ConnectOpen(w) ==
  /\ threads[w].pc = "connect"
  /\ reported' = [reported EXCEPT ![threads[w].q] = @ \cup {threads[w].port}]
  /\ threads' = [threads EXCEPT ![w].pc = "put"]
  /\ UNCHANGED <<args, pc, hostIdx, locals, queues, launched, invoked,
                 scanned, pinged, resolved, results, sink>>

\* sock.connect_ex returns an error code; scan_port returns
ConnectClosed(w) ==
  /\ threads[w].pc = "connect"
  /\ threads' = [threads EXCEPT ![w].pc = "task_done"]
  /\ UNCHANGED <<args, pc, hostIdx, locals, queues, launched, history,
                 results, sink>>

\* a worker that calls task_done in a finally clause before the exception
\* ends the thread
ConnectRaiseTaskDone(w) ==
  /\ threads[w].pc = "connect"
  /\ unfinished' = [unfinished EXCEPT ![threads[w].q] = @ - 1]
  /\ threads' = [threads EXCEPT ![w].pc = "dead"]
  /\ UNCHANGED <<args, pc, hostIdx, locals, port_queue, output_queue,
                 launched, history, results, sink>>

\* socket.socket or connect_ex raises: the exception ends the thread
ConnectRaise(w) ==
  /\ threads[w].pc = "connect"
  /\ threads' = [threads EXCEPT ![w].pc = "dead"]
  /\ UNCHANGED <<args, pc, hostIdx, locals, queues, launched, history,
                 results, sink>>

\* output_queue.put(port); scan_port returns
ScanPortPut(w) ==
  /\ threads[w].pc = "put"
  /\ output_queue' = [output_queue EXCEPT ![threads[w].q] = QueuePut(@, threads[w].port)]
  /\ threads' = [threads EXCEPT ![w].pc = "task_done"]
  /\ UNCHANGED <<args, pc, hostIdx, locals, port_queue, unfinished, launched,
                 history, results, sink>>

\* a worker that goes on to the next port without queue.task_done()
WorkerTaskDoneMissing(w) ==
  /\ threads[w].pc = "task_done"
  /\ threads' = [threads EXCEPT ![w].pc = "check", ![w].port = 0]
  /\ UNCHANGED <<args, pc, hostIdx, locals, queues, launched, history,
                 results, sink>>

\* queue.task_done()
WorkerTaskDone(w) ==
  /\ threads[w].pc = "task_done"
  /\ unfinished' = [unfinished EXCEPT ![threads[w].q] = @ - 1]
  /\ threads' = [threads EXCEPT ![w].pc = "check", ![w].port = 0]
  /\ UNCHANGED <<args, pc, hostIdx, locals, port_queue, output_queue,
                 launched, history, results, sink>>

\* ---- specification ------------------------------------------------------

Next ==
  \/ CheckFile
  \/ TCPPortCheck
  \/ GetThreadsCount
  \/ DirectCall
  \/ ForHost
  \/ IsHostOnline
  \/ GetHostInfo
  \/ GetHostInfoRaise
  \/ PortScannerCall
  \/ SkipScan
  \/ ThreadStart
  \/ LaunchDone
  \/ Join
  \/ Drain
  \/ PortScannerReturn
  \/ Assemble
  \/ WriteOutput
  \/ \E w \in DOMAIN threads : WorkerCheck(w)
  \/ \E w \in DOMAIN threads : WorkerGet(w)
  \/ \E w \in DOMAIN threads : ConnectOpen(w)
  \/ \E w \in DOMAIN threads : ConnectClosed(w)
  \/ \E w \in DOMAIN threads : ConnectRaise(w)
  \/ \E w \in DOMAIN threads : ScanPortPut(w)
  \/ \E w \in DOMAIN threads : WorkerTaskDone(w)

Spec == Init /\ [][Next]_vars

\* ---- derived notions ----------------------------------------------------

\* the worker is inside scan_port
InFlight(w) == threads[w].pc \in {"connect", "put"}

ProbesInFlight == Cardinality({w \in DOMAIN threads : InFlight(w)})

TypeOK ==
  /\ pc \in {"idle", "TCP_port_check", "get_threads_count", "for",
             "is_host_online", "get_host_info", "if_online", "launch", "join",
             "drain", "assemble", "write", "done", "raised"}
  /\ hostIdx \in 0..(MaxHosts + 1)
  /\ \A w \in DOMAIN threads :
       threads[w].pc \in {"check", "get", "connect", "put", "task_done",
                          "exited", "dead"}

\* call s of port_scanner has passed port_queue.join()
Passed(s) ==
  /\ s \in scanned
  /\ \/ s < hostIdx
     \/ s = hostIdx /\ pc \in {"drain", "assemble"}

\* call s of port_scanner has returned its list
Returned(s) ==
  /\ s \in scanned
  /\ \/ s < hostIdx
     \/ s = hostIdx /\ pc = "assemble"

\* the list call s returned: the local open_ports, then the record of its host
ReturnedPorts(s) ==
  IF s = hostIdx THEN open_ports
  ELSE LET i == CHOOSE i \in DOMAIN results : results[i].host = host_list[s]
       IN results[i].OpenPorts

InRange(p) == p >= start_port /\ p <= end_port

\* ---- claims -------------------------------------------------------------

\* C1: in one call of port_scanner every port of [start, end] is probed exactly
\* once: never twice, a probed port is never back in the queue, and when the
\* barrier is passed no port of the range was left out.
C1_EachPortProbedOnce ==
  \A s \in scanned : \A p \in Ports :
    /\ invoked[s][p] <= 1
    /\ invoked[s][p] >= 1 => p \notin SeqToSet(port_queue[s]) /\ InRange(p)
    /\ Passed(s) => invoked[s][p] = (IF InRange(p) THEN 1 ELSE 0)

\* a call with two workers and two ports has passed its barrier
C1_Witness ==
  /\ Passed(hostIdx)
  /\ num_threads = 2
  /\ end_port > start_port
  /\ \E w \in DOMAIN threads : threads[w].q = hostIdx /\ threads[w].pc = "get"

\* C2: a thread count of 0 or less is rejected: the main thread never waits
\* at port_queue.join() on queued ports with no worker launched.
C2_NeverWaitsWithoutWorkers ==
  ~(pc = "join" /\ launched = 0 /\ unfinished[hostIdx] > 0)

\* C3: the list port_scanner returns holds exactly the ports whose probe
\* reported open, each once, all of them ports of [start, end].
C3_ExactlyTheOpenPorts ==
  \A s \in scanned :
    Returned(s) =>
      /\ NoDuplicates(ReturnedPorts(s))
      /\ SeqToSet(ReturnedPorts(s)) = reported[s]
      /\ \A p \in reported[s] : InRange(p)

\* two workers published two open ports and the call returned both
C3_Witness ==
  /\ Returned(hostIdx)
  /\ pc = "assemble"
  /\ num_threads = 2
  /\ Len(open_ports) = 2
  /\ open_ports[1] > open_ports[2]

\* C4: once port_scanner has passed its barrier, its port queue is empty and
\* no scan_port call of that scan is running; every open port found has been
\* inserted into the collector (or already drained from it).
C4_BarrierDrains ==
  \A s \in scanned :
    Passed(s) =>
      /\ port_queue[s] = <<>>
      /\ \A w \in DOMAIN threads : threads[w].q = s => ~InFlight(w)
      /\ \A p \in reported[s] :
           \/ p \in SeqToSet(output_queue[s])
           \/ p \in SeqToSet(ReturnedPorts(s))

\* the barrier was passed after two workers probed two ports, one open
C4_Witness ==
  /\ pc = "drain"
  /\ hostIdx \in scanned
  /\ num_threads = 2
  /\ \A p \in Ports : invoked[hostIdx][p] = 1
  /\ output_queue[hostIdx] /= <<>>

\* C5: at most num_threads probes are in flight at any time (none when the
\* count is not positive), workers of earlier scans included.
C5_ConcurrencyBound ==
  ProbesInFlight <= (IF num_threads > 0 THEN num_threads ELSE 0)

\* num_threads probes are in flight for the second host while a worker of the
\* first host's scan is still alive, blocked in queue.get()
C5_Witness ==
  /\ hostIdx = 2
  /\ num_threads = 2
  /\ ProbesInFlight = 2
  /\ \E w \in DOMAIN threads : threads[w].q = 1 /\ threads[w].pc = "get"

\* host i of host_list has its record in results
HasRecord(i) == \E k \in DOMAIN results : results[k].host = host_list[i]

RecordOf(i) == results[CHOOSE k \in DOMAIN results : results[k].host = host_list[i]]

\* the hosts of the records, in insertion order
ResultHosts == [k \in DOMAIN results |-> results[k].host]

\* C6: a host whose liveness check returned false is never given to
\* port_scanner (no worker, no probe for it), and it still gets a record with
\* State "Offline" and an empty Open Ports list.
C6_OfflineNeverScanned ==
  /\ \A i \in DOMAIN host_list :
       i < hostIdx =>
         /\ HasRecord(i)
         /\ RecordOf(i).State = "Offline" =>
              /\ RecordOf(i).OpenPorts = <<>>
              /\ i \notin scanned
              /\ \A w \in DOMAIN threads : threads[w].q /= i
              /\ \A p \in Ports : invoked[i][p] = 0
  /\ (pc \in {"get_host_info", "if_online", "assemble"} /\ state = "Offline") =>
       /\ hostIdx \notin scanned
       /\ \A w \in DOMAIN threads : threads[w].q /= hostIdx
       /\ pc = "assemble" => open_ports = <<>>

\* an offline host has its record, next to an online host that was scanned
C6_Witness ==
  /\ pc = "done"
  /\ Len(host_list) = 2
  /\ RecordOf(1).State = "Online"
  /\ RecordOf(1).OpenPorts /= <<>>
  /\ RecordOf(2).State = "Offline"

\* C7: hosts are processed in input order, one scan at a time: every probe in
\* flight belongs to the host the loop is at, and the records are inserted in
\* input order.
C7_OneHostAtATime ==
  /\ \A w \in DOMAIN threads : InFlight(w) => threads[w].q = hostIdx
  /\ pinged = SubSeq(host_list, 1, Len(pinged))
  /\ ResultHosts = SubSeq(host_list, 1, Len(results))
  /\ pc \in {"for", "write", "done"} => Len(results) = hostIdx - 1

\* a probe of the second host is in flight while a worker of the first host's
\* scan is still alive
C7_Witness ==
  /\ hostIdx = 2
  /\ Len(results) = 1
  /\ \E w \in DOMAIN threads : threads[w].q = 2 /\ InFlight(w)
  /\ \E w \in DOMAIN threads : threads[w].q = 1 /\ threads[w].pc \in {"check", "get"}

\* C8: the report is handed to the output sink at most once, only when every
\* host has its record (one record per input host, in input order), and exactly
\* once when the batch is done; what is handed over is the whole report.
C8_SinkOnceAtTheEnd ==
  /\ sinkCalls <= 1
  /\ pc = "done" => sinkCalls = 1
  /\ sinkCalls = 1 =>
       /\ pc = "done"
       /\ ResultHosts = host_list
       /\ sinkStatus \in {"written", "IOError"}
       /\ sinkStatus = "written" => sinkData = results
  /\ sinkCalls = 0 => sinkStatus = "none" /\ sinkData = <<>>

\* the report of two hosts was written
C8_Witness ==
  /\ pc = "done"
  /\ sinkCalls = 1
  /\ Len(host_list) = 2
  /\ sinkStatus = "written"
  /\ sinkData = results
  /\ Len(results) = 2

\* C9: an invalid port range (start > end) makes scan_from_file fail before
\* any liveness check, worker launch or probe.
C9_InvalidRangeFailsFast ==
  start_port > end_port =>
    /\ pinged = <<>>
    /\ scanned = {}
    /\ threads = <<>>
    /\ pc /= "done"

\* C10: with end < start port_scanner probes nothing, its barrier never
\* blocks, whatever the thread count, and it returns an empty list.
C10_EmptyRange ==
  start_port > end_port =>
    \A s \in scanned :
      /\ \A p \in Ports : invoked[s][p] = 0
      /\ unfinished[s] = 0
      /\ \A w \in DOMAIN threads : threads[w].pc \in {"check", "exited"}
      /\ Returned(s) => ReturnedPorts(s) = <<>>

\* port_scanner returned from an empty range with two workers launched
C10_Witness ==
  /\ start_port > end_port
  /\ pc = "assemble"
  /\ hostIdx \in scanned
  /\ launched = 2

\* C12: when writing the report fails, the caller of scan_from_file learns of
\* the failure: the call does not end like a successful one, returning None
\* and leaving nothing of the report with the caller.
C12_WriteFailureReported ==
  (pc = "done" /\ sinkStatus = "IOError") => caller /= "None"

\* C13: get_host_info turns every resolution failure into ("Unknown", []): no
\* error of the resolver ever leaves get_host_info and ends scan_from_file.
C13_ResolverNeverPropagates ==
  /\ pc /= "raised"
  /\ caller /= "raised"

\* ---- the same host scanned twice, under a deterministic probe -------------

\* scan_from_file is in its loop over a list that names one host twice, so
\* that port_scanner is called twice with the same host, range and count
InitTwice ==
  /\ \E h \in Hosts : host_list = <<h, h>>
  /\ start_port \in Ports
  /\ end_port \in Ports
  /\ num_threads \in ThreadCounts
  /\ pc = "for"
  /\ hostIdx = 1
  /\ state = "none"
  /\ hostname = "none"
  /\ open_ports = <<>>
  /\ port_queue = [s \in Hosts |-> <<>>]
  /\ unfinished = [s \in Hosts |-> 0]
  /\ output_queue = [s \in Hosts |-> <<>>]
  /\ threads = <<>>
  /\ launched = 0
  /\ invoked = [s \in Hosts |-> [p \in Ports |-> 0]]
  /\ reported = [s \in Hosts |-> {}]
  /\ scanned = {}
  /\ pinged = <<>>
  /\ resolved = <<>>
  /\ results = <<>>
  /\ sinkCalls = 0
  /\ sinkStatus = "none"
  /\ sinkData = <<>>
  /\ caller = "pending"

\* the probe is a fixed function of the port: what the first call saw for a
\* port is what every later call sees for it
ProbeSaysOpen(w) == threads[w].q = 1 \/ threads[w].port \in reported[1]
ProbeSaysClosed(w) == threads[w].q = 1 \/ threads[w].port \notin reported[1]

ConnectOpenFixed(w) == threads[w].pc = "connect" /\ ProbeSaysOpen(w) /\ ConnectOpen(w)

ConnectClosedFixed(w) == threads[w].pc = "connect" /\ ProbeSaysClosed(w) /\ ConnectClosed(w)

NextTwice ==
  \/ ForHost
  \/ IsHostOnline
  \/ GetHostInfo
  \/ PortScannerCall
  \/ SkipScan
  \/ ThreadStart
  \/ LaunchDone
  \/ Join
  \/ Drain
  \/ PortScannerReturn
  \/ Assemble
  \/ WriteOutput
  \/ \E w \in DOMAIN threads : WorkerCheck(w)
  \/ \E w \in DOMAIN threads : WorkerGet(w)
  \/ \E w \in DOMAIN threads : ConnectOpenFixed(w)
  \/ \E w \in DOMAIN threads : ConnectClosedFixed(w)
  \/ \E w \in DOMAIN threads : ScanPortPut(w)
  \/ \E w \in DOMAIN threads : WorkerTaskDone(w)

SpecTwice == InitTwice /\ [][NextTwice]_vars

\* C11: under a deterministic probe the second call of port_scanner for the
\* same host, range and thread count returns the same set of ports as the
\* first, whatever the interleavings and the workers the first call left.
C11_SameSetTwice ==
  (hostIdx = 2 /\ pc = "assemble" /\ scanned = {1, 2}) =>
    SeqToSet(open_ports) = SeqToSet(results[1].OpenPorts)

\* the second call returned two ports in another order than the first, while
\* a worker of the first call is still blocked in queue.get()
C11_Witness ==
  /\ hostIdx = 2
  /\ pc = "assemble"
  /\ scanned = {1, 2}
  /\ Len(open_ports) = 2
  /\ open_ports /= results[1].OpenPorts
  /\ \E w \in DOMAIN threads : threads[w].q = 1 /\ threads[w].pc = "get"

\* ---- worker pool: claims C14 to C20 --------------------------------------

\* the workers of call s
WorkersOf(s) == {w \in DOMAIN threads : threads[w].q = s}

\* the workers of call s that an exception of scan_port ended
DeadWorkersOf(s) == {w \in WorkersOf(s) : threads[w].pc = "dead"}

\* C14: scan_port never raises: no worker thread is ever ended by an
\* exception of the connection attempt.
C14_ProbeNeverRaises ==
  \A w \in DOMAIN threads : threads[w].pc /= "dead"

\* C15: no worker is ever blocked in queue.get(): a worker that is about to
\* dequeue finds a port in the queue.
C15_NoWorkerBlockedInGet ==
  \A w \in DOMAIN threads :
    threads[w].pc = "get" => port_queue[threads[w].q] /= <<>>

\* C16: when port_scanner has returned, every worker it launched has exited.
C16_WorkersExitedAtReturn ==
  \A s \in scanned :
    Returned(s) => \A w \in WorkersOf(s) : threads[w].pc \in {"exited", "dead"}

\* C17: once port_scanner has passed its barrier, nothing is inserted into
\* its output_queue any more: the queue only shrinks, by the drain.
C17_NoInsertAfterBarrier ==
  [][\A s \in Hosts :
       Passed(s) => Len(output_queue'[s]) <= Len(output_queue[s])]_vars

\* the drain is under way while a worker of the scan is still alive
C17_Witness ==
  /\ pc = "drain"
  /\ open_ports /= <<>>
  /\ output_queue[hostIdx] /= <<>>
  /\ \E w \in WorkersOf(hostIdx) : threads[w].pc \in {"check", "get"}

\* C18: for every host the liveness check comes first, then the name
\* resolution, then the port scan (if any), then the record; the name of
\* every host, online or offline, is resolved before any probe of it and
\* before its record.
C18_StepOrder ==
  /\ pinged = SubSeq(host_list, 1, Len(pinged))
  /\ resolved = SubSeq(host_list, 1, Len(resolved))
  /\ Len(resolved) <= Len(pinged)
  /\ Len(pinged) <= Len(resolved) + 1
  /\ pc = "is_host_online" => Len(pinged) = hostIdx - 1
  /\ pc = "get_host_info" => Len(pinged) = hostIdx /\ Len(resolved) = hostIdx - 1
  /\ pc \in {"if_online", "launch", "join", "drain", "assemble"} =>
       Len(pinged) = hostIdx /\ Len(resolved) = hostIdx
  /\ Len(results) <= Len(resolved)
  /\ \A s \in Hosts :
       (s \in scanned \/ WorkersOf(s) /= {} \/ \E p \in Ports : invoked[s][p] > 0) =>
         /\ s <= Len(resolved)
         /\ s > Len(results)
            \/ results[s].State = "Online"

\* an offline host and an online host both had their names resolved, and
\* the online one was probed
C18_Witness ==
  /\ pc = "done"
  /\ Len(results) = 2
  /\ results[1].State = "Offline"
  /\ results[2].State = "Online"
  /\ resolved = host_list
  /\ \E p \in Ports : invoked[2][p] = 1

\* C20: when scan_port raised in a worker of a call, that worker made no
\* task_done for its port: the count of unfinished tasks stays above zero and
\* the call never passes its barrier, so the batch never ends.
C20_RaiseBlocksReturn ==
  \A s \in scanned :
    DeadWorkersOf(s) /= {} =>
      /\ unfinished[s] >= Cardinality(DeadWorkersOf(s))
      /\ ~Passed(s)
      /\ s = hostIdx
      /\ pc \in {"launch", "join"}

\* one worker was ended by an exception, the other drained the rest of the
\* queue and exited, and port_scanner waits at its barrier
C20_Witness ==
  /\ pc = "join"
  /\ num_threads = 2
  /\ end_port > start_port
  /\ port_queue[hostIdx] = <<>>
  /\ unfinished[hostIdx] = 1
  /\ \E w \in WorkersOf(hostIdx) : threads[w].pc = "dead"
  /\ \E w \in WorkersOf(hostIdx) : threads[w].pc = "exited"

\* ---- termination of port_scanner when every probe returns ----------------

\* a step of the main thread inside scan_from_file
MainStep ==
  \/ ForHost
  \/ IsHostOnline
  \/ GetHostInfo
  \/ GetHostInfoRaise
  \/ PortScannerCall
  \/ SkipScan
  \/ ThreadStart
  \/ LaunchDone
  \/ Join
  \/ Drain
  \/ PortScannerReturn
  \/ Assemble
  \/ WriteOutput

\* a step of worker thread w whose probe returns (connect_ex is bounded by
\* settimeout(.5))
WorkerStep(w) ==
  /\ w \in DOMAIN threads
  /\ \/ WorkerCheck(w)
     \/ WorkerGet(w)
     \/ ConnectOpen(w)
     \/ ConnectClosed(w)
     \/ ScanPortPut(w)
     \/ WorkerTaskDone(w)

NextLive ==
  \/ CheckFile
  \/ TCPPortCheck
  \/ GetThreadsCount
  \/ DirectCall
  \/ MainStep
  \/ \E w \in 1..(MaxHosts * MaxThreads) : WorkerStep(w)

\* every thread that can run is scheduled eventually
SpecLive ==
  /\ Init
  /\ [][NextLive]_vars
  /\ WF_vars(MainStep)
  /\ \A w \in 1..(MaxHosts * MaxThreads) : WF_vars(WorkerStep(w))

\* C19: with at least one thread, probes that all return and fair scheduling,
\* every call of port_scanner passes its barrier and returns.
C19_ScanReturns ==
  \A s \in Hosts : (s \in scanned /\ num_threads >= 1) ~> Returned(s)

\* port_scanner returned although one of its workers is blocked in the
\* dequeue for ever
C19_Witness ==
  /\ pc = "assemble"
  /\ hostIdx \in scanned
  /\ end_port > start_port
  /\ \E w \in WorkersOf(hostIdx) :
       threads[w].pc = "get" /\ port_queue[hostIdx] = <<>>

====
